---- MODULE Spec2Model ----
(***************************************************************************)
(* Spider Solitaire: the game controller of App (src/unnamed/part_000) and *)
(* the rules engine it calls (utils/gameLogic, described in spec.md 4.x).   *)
(*                                                                         *)
(* The game's dimensions are parameters of the model.  The program plays   *)
(* with 13 ranks, 8 King-to-Ace sets (104 cards), 10 columns and 5 deals   *)
(* of stock; the model keeps every rule and scales the four dimensions     *)
(* down so that whole games, wins included, are explored exhaustively.     *)
(* Columns and card positions are numbered from 1 here and from 0 in the   *)
(* program.  A card's rank is kept as its RANK_VALUES value (Ace = 1,      *)
(* King = NumRanks).                                                       *)
(***************************************************************************)
EXTENDS Integers, Sequences, FiniteSets, TLC

NumRanks == 3
NumSets == 4
NumCols == 3
NumDeals == 2
MaxMoves == 6

StartScore == 500
SetBonus == 100

DeckSize == NumSets * NumRanks
WinFoundations == NumSets
KingValue == NumRanks
Columns == 1..NumCols
Difficulty == {1, 2, 4}

VARIABLES tableau, stock, foundations, moves, score,
          selectedCards, gameWon, difficulty, last

vars == <<tableau, stock, foundations, moves, score,
          selectedCards, gameWon, difficulty, last>>

gameState == <<tableau, stock, foundations, moves, score>>

\* selectedCards === null
NoSelection == [colIndex |-> 0, cardIndex |-> 0]

\* an absent card: destCol[destCol.length - 1] of an empty column
NoCard == [id |-> 0, suit |-> 0, rank |-> 0, isFaceUp |-> FALSE]

Min(a, b) == IF a < b THEN a ELSE b

\* array.slice(from) with from counted from 1
SliceFrom(col, from) == SubSeq(col, from, Len(col))

\* array.slice(0, upTo) with upTo counted from 1: the cards before upTo
SliceBefore(col, upTo) == SubSeq(col, 1, upTo - 1)

Top(col) == IF Len(col) = 0 THEN NoCard ELSE col[Len(col)]

FaceUp(card) == [card EXCEPT !.isFaceUp = TRUE]

\* if (nextCol.length > 0) nextCol[nextCol.length - 1].isFaceUp = true
Expose(col) == IF Len(col) > 0 THEN [col EXCEPT ![Len(col)] = FaceUp(@)] ELSE col

(***************************************************************************)
(* The rules engine (utils/gameLogic), modelled from spec.md 4.1 - 4.5.    *)
(***************************************************************************)

\* 4.1: the first diff suits, each contributing ranks A..K, cycling until the
\* deck is full; every card has a fresh id and starts face-down.
createDeck(diff) ==
  [i \in 1..DeckSize |->
     [id |-> i,
      suit |-> ((i - 1) \div NumRanks) % diff,
      rank |-> ((i - 1) % NumRanks) + 1,
      isFaceUp |-> FALSE]]

\* 4.3
canMoveSequence(cards) ==
  /\ Len(cards) > 0
  /\ \A i \in 1..Len(cards) : cards[i].isFaceUp
  /\ \A i \in 1..(Len(cards) - 1) :
       /\ cards[i + 1].suit = cards[i].suit
       /\ cards[i + 1].rank = cards[i].rank - 1

\* 4.4
isValidMove(movingCards, destCard) ==
  /\ destCard # NoCard
  /\ Len(movingCards) > 0
  /\ movingCards[1].rank = destCard.rank - 1

\* 4.5: the last NumRanks cards are a face-up same-suit run King..Ace
IsCompleteTail(col) ==
  /\ Len(col) >= NumRanks
  /\ LET tail == SliceFrom(col, Len(col) - NumRanks + 1)
     IN  /\ \A i \in 1..NumRanks :
              /\ tail[i].isFaceUp
              /\ tail[i].suit = tail[1].suit
              /\ tail[i].rank = KingValue - i + 1

checkAndRemoveCompleteSet(col) ==
  IF IsCompleteTail(col)
  THEN [newColumn |-> Expose(SubSeq(col, 1, Len(col) - NumRanks)), removed |-> TRUE]
  ELSE [newColumn |-> col, removed |-> FALSE]

\* 4.2: the dealt cards go to the columns in order, the first columns taking
\* one card more than the others (6,6,6,6,5,...,5 of 54 in the program), the
\* last card of each column is turned face-up, the rest is the stock.
Dealt == DeckSize - NumDeals * NumCols

ColumnCount(c) == (Dealt \div NumCols) + (IF c <= Dealt % NumCols THEN 1 ELSE 0)

ColumnStart(c) == (c - 1) * (Dealt \div NumCols) + Min(c - 1, Dealt % NumCols) + 1

dealInitial(deck) ==
  [tableau |-> [c \in Columns |->
                  Expose(SubSeq(deck, ColumnStart(c), ColumnStart(c) + ColumnCount(c) - 1))],
   remainingStock |-> SubSeq(deck, Dealt + 1, DeckSize)]

\* 4.1: the shuffle puts the created deck in some order; order[i] is the
\* created position of the card that ends at position i.
IsShuffle(order) ==
  /\ Len(order) = DeckSize
  /\ \A i \in 1..DeckSize : \E j \in 1..DeckSize : order[j] = i

Shuffled(deck, order) == [i \in 1..DeckSize |-> deck[order[i]]]

\* The orders the model draws shuffles from: the deck as created, a deck
\* that a player can win within MaxMoves moves, and a deck whose deals
\* finish King..Ace runs and bury them under the next deal.
AsCreated == [i \in 1..DeckSize |-> i]

Winnable == <<11, 5, 2, 8, 3, 9, 6, 10, 4, 7, 1, 12>>

Burying == <<3, 12, 9, 5, 11, 8, 7, 6, 2, 1, 10, 4>>

Shuffles == {order \in {AsCreated, Winnable, Burying} : IsShuffle(order)}

(***************************************************************************)
(* The game controller: App's handlers.                                    *)
(***************************************************************************)

\* last: the handler that ran last and the branch it took; for a click with
\* cards selected in another column, the column clicked; for a move, the
\* number of cards moved and the number of sets removed
Event(op, col, moved, removed) ==
  [op |-> op, col |-> col, moved |-> moved, removed |-> removed]

\* initGame without line 23: the selection of the previous game is kept
initGame_KeepsSelection(diff, order) ==
  LET dealt == dealInitial(Shuffled(createDeck(diff), order))
  IN  /\ tableau' = dealt.tableau
      /\ stock' = dealt.remainingStock
      /\ foundations' = 0
      /\ moves' = 0
      /\ score' = StartScore
      /\ gameWon' = FALSE
      /\ selectedCards' = selectedCards
      /\ last' = Event("init", 0, 0, 0)

\* initGame(diff), lines 12-24, on the deck createDeck(diff) shuffled to order
initGame(diff, order) ==
  LET dealt == dealInitial(Shuffled(createDeck(diff), order))
  IN  /\ tableau' = dealt.tableau
      /\ stock' = dealt.remainingStock
      /\ foundations' = 0
      /\ moves' = 0
      /\ score' = StartScore
      /\ gameWon' = FALSE
      /\ selectedCards' = NoSelection
      /\ last' = Event("init", 0, 0, 0)

\* useState<Difficulty>(1) and the mount effect's initGame()
Init ==
  /\ difficulty = 1
  /\ \E order \in Shuffles :
       LET dealt == dealInitial(Shuffled(createDeck(1), order))
       IN  /\ tableau = dealt.tableau
           /\ stock = dealt.remainingStock
  /\ foundations = 0
  /\ moves = 0
  /\ score = StartScore
  /\ gameWon = FALSE
  /\ selectedCards = NoSelection
  /\ last = Event("init", 0, 0, 0)

\* the New Game and Play Again buttons: initGame() with the current difficulty
NewGame ==
  /\ \E order \in Shuffles : initGame(difficulty, order)
  /\ UNCHANGED difficulty

\* the difficulty select: setDifficulty(d); initGame(d), and the effect on
\* [initGame] deals once more with the new difficulty
ChangeDifficulty ==
  \E d \in Difficulty \ {difficulty} :
    /\ difficulty' = d
    /\ \E order \in Shuffles : initGame(d, order)

\* handleDeal, lines 30-58
DealCount == Min(NumCols, Len(stock))

\* DealtTableau taking the dealt cards in stock order (slice, not pop)
DealtTableau_InStockOrder ==
  [c \in Columns |->
     IF c <= DealCount
     THEN Append(tableau[c], FaceUp(stock[Len(stock) - DealCount + c]))
     ELSE tableau[c]]

DealtTableau ==
  [c \in Columns |->
     IF c <= DealCount
     THEN Append(tableau[c], FaceUp(stock[Len(stock) - c + 1]))
     ELSE tableau[c]]

\* handleDeal without the test for an empty column (lines 36-39)
handleDeal_IgnoresEmptyColumns ==
  IF Len(stock) = 0
  THEN /\ last' = Event("dealNoStock", 0, 0, 0)
       /\ UNCHANGED <<gameState, selectedCards, gameWon, difficulty>>
  ELSE /\ moves < MaxMoves
       /\ stock' = SubSeq(stock, 1, Len(stock) - DealCount)
       /\ tableau' = DealtTableau
       /\ moves' = moves + 1
       /\ last' = Event("deal", 0, 0, 0)
       /\ UNCHANGED <<foundations, score, selectedCards, gameWon, difficulty>>

handleDeal ==
  IF Len(stock) = 0
  THEN /\ last' = Event("dealNoStock", 0, 0, 0)
       /\ UNCHANGED <<gameState, selectedCards, gameWon, difficulty>>
  ELSE IF \E c \in Columns : Len(tableau[c]) = 0
  THEN /\ last' = Event("dealRejected", 0, 0, 0)
       /\ UNCHANGED <<gameState, selectedCards, gameWon, difficulty>>
  ELSE /\ moves < MaxMoves
       /\ stock' = SubSeq(stock, 1, Len(stock) - DealCount)
       /\ tableau' = DealtTableau
       /\ moves' = moves + 1
       /\ last' = Event("deal", 0, 0, 0)
       /\ UNCHANGED <<foundations, score, selectedCards, gameWon, difficulty>>

\* handleCardClick and handleEmptyColumnClick: the selected cards and the
\* tableau with them taken off their column
SourceCol == tableau[selectedCards.colIndex]

MovingCards == SliceFrom(SourceCol, selectedCards.cardIndex)

\* MovedOntoCard with the source column left as it was
MovedOntoCard_KeepsSource(colIndex) ==
  [idx \in Columns |->
     IF idx = colIndex THEN tableau[idx] \o MovingCards ELSE tableau[idx]]

\* MovedOntoCard with the moving cards put under the destination column
MovedOntoCard_Prepends(colIndex) ==
  [idx \in Columns |->
     IF idx = selectedCards.colIndex
     THEN Expose(SliceBefore(tableau[idx], selectedCards.cardIndex))
     ELSE IF idx = colIndex
     THEN MovingCards \o tableau[idx]
     ELSE tableau[idx]]

\* MovedOntoCard without line 84: the source's new top card is not turned
MovedOntoCard_LeavesTopFaceDown(colIndex) ==
  [idx \in Columns |->
     IF idx = selectedCards.colIndex
     THEN SliceBefore(tableau[idx], selectedCards.cardIndex)
     ELSE IF idx = colIndex
     THEN tableau[idx] \o MovingCards
     ELSE tableau[idx]]

\* lines 81-91
MovedOntoCard(colIndex) ==
  [idx \in Columns |->
     IF idx = selectedCards.colIndex
     THEN Expose(SliceBefore(tableau[idx], selectedCards.cardIndex))
     ELSE IF idx = colIndex
     THEN tableau[idx] \o MovingCards
     ELSE tableau[idx]]

\* lines 94-99
FinalTableau(newTableau) ==
  [idx \in Columns |-> checkAndRemoveCompleteSet(newTableau[idx]).newColumn]

RemovedCount(newTableau) ==
  Cardinality({idx \in Columns : checkAndRemoveCompleteSet(newTableau[idx]).removed})

\* if (newFoundations === 8) setGameWon(true), with a test that is off by one
GameWonAfter_OneSetEarly(newFoundations) ==
  IF newFoundations >= WinFoundations - 1 THEN TRUE ELSE gameWon

\* lines 113-115: if (newFoundations === 8) setGameWon(true)
GameWonAfter(newFoundations) ==
  IF newFoundations = WinFoundations THEN TRUE ELSE gameWon

\* SelectSequence selecting any face-up card, whatever lies on top of it
SelectSequence_AnyFaceUpCard(colIndex, cardIndex) ==
  /\ IF tableau[colIndex][cardIndex].isFaceUp
     THEN /\ selectedCards' = [colIndex |-> colIndex, cardIndex |-> cardIndex]
          /\ last' = Event("select", 0, 0, 0)
     ELSE /\ selectedCards' = selectedCards
          /\ last' = Event("selectRefused", 0, 0, 0)
  /\ UNCHANGED <<gameState, gameWon, difficulty>>

\* lines 128-132: no cards selected, trying to select a sequence
SelectSequence(colIndex, cardIndex) ==
  /\ IF canMoveSequence(SliceFrom(tableau[colIndex], cardIndex))
     THEN /\ selectedCards' = [colIndex |-> colIndex, cardIndex |-> cardIndex]
          /\ last' = Event("select", 0, 0, 0)
     ELSE /\ selectedCards' = selectedCards
          /\ last' = Event("selectRefused", 0, 0, 0)
  /\ UNCHANGED <<gameState, gameWon, difficulty>>

\* ChangeSelection keeping the old selection when the clicked card is not movable
ChangeSelection_KeepsOldSelection(colIndex, cardIndex) ==
  /\ IF canMoveSequence(SliceFrom(tableau[colIndex], cardIndex))
     THEN /\ selectedCards' = [colIndex |-> colIndex, cardIndex |-> cardIndex]
          /\ last' = Event("reselect", colIndex, 0, 0)
     ELSE /\ selectedCards' = selectedCards
          /\ last' = Event("clearInvalid", colIndex, 0, 0)
  /\ UNCHANGED <<gameState, gameWon, difficulty>>

\* lines 116-124: invalid move, change selection if the clicked card is movable
ChangeSelection(colIndex, cardIndex) ==
  /\ IF canMoveSequence(SliceFrom(tableau[colIndex], cardIndex))
     THEN /\ selectedCards' = [colIndex |-> colIndex, cardIndex |-> cardIndex]
          /\ last' = Event("reselect", colIndex, 0, 0)
     ELSE /\ selectedCards' = NoSelection
          /\ last' = Event("clearInvalid", colIndex, 0, 0)
  /\ UNCHANGED <<gameState, gameWon, difficulty>>

\* Deselect moving the selection to the clicked card of the same column
Deselect_SelectsClickedCard(colIndex, cardIndex) ==
  /\ selectedCards' = [colIndex |-> colIndex, cardIndex |-> cardIndex]
  /\ last' = Event("deselect", 0, 0, 0)
  /\ UNCHANGED <<gameState, gameWon, difficulty>>

\* lines 69-72: a click in the selected column deselects
Deselect(colIndex, cardIndex) ==
  /\ selectedCards' = NoSelection
  /\ last' = Event("deselect", 0, 0, 0)
  /\ UNCHANGED <<gameState, gameWon, difficulty>>

\* lines 60-133
handleCardClick(colIndex, cardIndex) ==
  IF selectedCards # NoSelection
  THEN IF selectedCards.colIndex = colIndex
       THEN Deselect(colIndex, cardIndex)
       ELSE IF isValidMove(MovingCards, Top(tableau[colIndex]))
       THEN LET newTableau == MovedOntoCard(colIndex)
                removedCount == RemovedCount(newTableau)
                newFoundations == foundations + removedCount
            IN  /\ moves < MaxMoves
                /\ tableau' = FinalTableau(newTableau)
                /\ foundations' = newFoundations
                /\ moves' = moves + 1
                /\ score' = score + (removedCount * SetBonus) - 1
                /\ selectedCards' = NoSelection
                /\ gameWon' = GameWonAfter(newFoundations)
                /\ last' = Event("moveToCard", colIndex, Len(MovingCards), removedCount)
                /\ UNCHANGED <<stock, difficulty>>
       ELSE ChangeSelection(colIndex, cardIndex)
  ELSE SelectSequence(colIndex, cardIndex)

\* MovedOntoEmpty without line 145: the source's new top card is not turned
MovedOntoEmpty_LeavesTopFaceDown(colIndex) ==
  [idx \in Columns |->
     IF idx = selectedCards.colIndex
     THEN SliceBefore(tableau[idx], selectedCards.cardIndex)
     ELSE IF idx = colIndex
     THEN MovingCards
     ELSE tableau[idx]]

\* lines 142-152
MovedOntoEmpty(colIndex) ==
  [idx \in Columns |->
     IF idx = selectedCards.colIndex
     THEN Expose(SliceBefore(tableau[idx], selectedCards.cardIndex))
     ELSE IF idx = colIndex
     THEN MovingCards
     ELSE tableau[idx]]

\* handleEmptyColumnClick without line 161: the selection outlives the move
handleEmptyColumnClick_KeepsSelection(colIndex) ==
  IF selectedCards = NoSelection
  THEN /\ last' = Event("emptyNoSelection", 0, 0, 0)
       /\ UNCHANGED <<gameState, selectedCards, gameWon, difficulty>>
  ELSE /\ moves < MaxMoves
       /\ tableau' = MovedOntoEmpty(colIndex)
       /\ moves' = moves + 1
       /\ score' = score - 1
       /\ selectedCards' = selectedCards
       /\ last' = Event("moveToEmpty", colIndex, Len(MovingCards), 0)
       /\ UNCHANGED <<stock, foundations, gameWon, difficulty>>

\* lines 135-162
handleEmptyColumnClick(colIndex) ==
  IF selectedCards = NoSelection
  THEN /\ last' = Event("emptyNoSelection", 0, 0, 0)
       /\ UNCHANGED <<gameState, selectedCards, gameWon, difficulty>>
  ELSE /\ moves < MaxMoves
       /\ tableau' = MovedOntoEmpty(colIndex)
       /\ moves' = moves + 1
       /\ score' = score - 1
       /\ selectedCards' = NoSelection
       /\ last' = Event("moveToEmpty", colIndex, Len(MovingCards), 0)
       /\ UNCHANGED <<stock, foundations, gameWon, difficulty>>

\* the card's onClick, line 233: any card shown in the tableau
CardClick ==
  \E colIndex \in Columns : \E cardIndex \in 1..Len(tableau[colIndex]) :
    handleCardClick(colIndex, cardIndex)

\* the column's onClick, lines 219-223: only an empty column passes the click on
EmptyColumnClick ==
  \E colIndex \in Columns :
    /\ Len(tableau[colIndex]) = 0
    /\ handleEmptyColumnClick(colIndex)

\* the stock's onClick, line 257
Deal == handleDeal

Next == NewGame \/ ChangeDifficulty \/ Deal \/ CardClick \/ EmptyColumnClick

Spec == Init /\ [][Next]_vars

(***************************************************************************)
(* checkAndRemoveCompleteSet on its own: the set check of lines 95-99 run  *)
(* on a tableau whose first column is drawn from the columns below.        *)
(***************************************************************************)

LooseCard(suit, rank, up) == [id |-> 0, suit |-> suit, rank |-> rank, isFaceUp |-> up]

CompleteRun(suit) == [i \in 1..NumRanks |-> LooseCard(suit, KingValue - i + 1, TRUE)]

\* a complete run, or one with a single card face-down, of the other suit,
\* or of the rank below
RunBlocks ==
  {CompleteRun(suit) : suit \in {0, 1}}
    \cup {[CompleteRun(suit) EXCEPT ![i] = LooseCard(suit, @.rank, FALSE)] :
            suit \in {0, 1}, i \in 1..NumRanks}
    \cup {[CompleteRun(suit) EXCEPT ![i] = LooseCard(1 - suit, @.rank, TRUE)] :
            suit \in {0, 1}, i \in 1..NumRanks}
    \cup {[CompleteRun(suit) EXCEPT ![i] = LooseCard(suit, (@.rank % NumRanks) + 1, TRUE)] :
            suit \in {0, 1}, i \in 1..NumRanks}

BottomCards ==
  {<<>>} \cup {<<LooseCard(0, rank, up)>> : rank \in {1, KingValue}, up \in BOOLEAN}

SetCheckColumns ==
  {bottom \o lower \o upper :
     bottom \in BottomCards, lower \in RunBlocks \cup {<<>>}, upper \in RunBlocks}

SetCheckInit ==
  /\ \E col \in SetCheckColumns :
       tableau = [c \in Columns |-> IF c = 1 THEN col ELSE <<>>]
  /\ stock = <<>>
  /\ foundations = 0
  /\ moves = 0
  /\ score = StartScore
  /\ gameWon = FALSE
  /\ selectedCards = NoSelection
  /\ difficulty = 2
  /\ last = Event("column", 0, 0, 0)

\* lines 94-101
SetCheck ==
  /\ tableau' = FinalTableau(tableau)
  /\ foundations' = foundations + RemovedCount(tableau)
  /\ last' = Event("setCheck", 0, 0, RemovedCount(tableau))
  /\ UNCHANGED <<stock, moves, score, gameWon, selectedCards, difficulty>>

SetCheckSpec == SetCheckInit /\ [][SetCheck]_vars

(***************************************************************************)
(* The claims.                                                             *)
(***************************************************************************)

RECURSIVE CardsInColumns(_)
CardsInColumns(c) == IF c = 0 THEN 0 ELSE Len(tableau[c]) + CardsInColumns(c - 1)

CardIds ==
  UNION {{tableau[c][i].id : i \in 1..Len(tableau[c])} : c \in Columns}
    \cup {stock[i].id : i \in 1..Len(stock)}

MoveOps == {"moveToCard", "moveToEmpty"}

\* C1: in every reachable state the cards of the tableau columns, the stock
\* and the removed sets (NumRanks cards for each foundation) add up to the
\* whole deck (104 = 8 * 13 in the program), and no card id appears twice
\* across tableau and stock.
C1_CardConservation ==
  /\ CardsInColumns(NumCols) + Len(stock) + NumRanks * foundations = DeckSize
  /\ Cardinality(CardIds) = CardsInColumns(NumCols) + Len(stock)

\* C1's case: sets have been removed, the stock has been dealt from, and a
\* sequence has just been moved onto an empty column.
C1_Witness ==
  /\ foundations > 0
  /\ Len(stock) < NumDeals * NumCols
  /\ last.op = "moveToEmpty"

\* C2: in every reachable state score = 500 + 100 * foundations - moves,
\* where moves is the moves counter (moves onto a card, moves onto an empty
\* column and deals from the stock).
C2_ScoreAccounting == score = StartScore + SetBonus * foundations - moves

\* C3: whenever a move is applied, onto a card or onto an empty column, the
\* cards taken from the source column, source[selection.cardIndex .. end] at
\* that moment, are a movable sequence per canMoveSequence.
C3_OnlyMovableRelocated ==
  [][(selectedCards # NoSelection /\ last'.op \in MoveOps)
       => canMoveSequence(MovingCards)]_vars

DealOps == {"deal", "dealRejected", "dealNoStock"}

SomeColumnEmpty == \E c \in Columns : Len(tableau[c]) = 0

\* C4: a handleDeal invoked while a column is empty, or while the stock is
\* empty, leaves tableau, stock, foundations, moves, score and gameWon as
\* they were; a deal is performed only when the stock is non-empty and every
\* column is non-empty.
C4_RejectedDealMutatesNothing ==
  [][last'.op \in DealOps =>
       /\ (SomeColumnEmpty \/ Len(stock) = 0)
            => UNCHANGED <<tableau, stock, foundations, moves, score, gameWon>>
       /\ (tableau' # tableau \/ stock' # stock \/ moves' # moves)
            => (Len(stock) > 0 /\ ~SomeColumnEmpty)]_vars

\* C4's case: handleDeal has just run with cards in the stock and an empty column.
C4_Witness ==
  /\ last.op = "dealRejected"
  /\ Len(stock) > 0
  /\ SomeColumnEmpty

OtherColumnClickOps == {"moveToCard", "reselect", "clearInvalid"}

\* C5: with a selection in column s, a click on a card of another column d
\* applies the move iff the first selected card's rank value is the rank
\* value of d's top card minus 1, whatever the suits; the tableau the set
\* check then receives has column d = old d followed by the selected cards
\* in order, column s = its cards before selection.cardIndex (the last of
\* them turned face-up), every other column as before; the stock is unchanged.
C5_MoveOntoCard ==
  [][(selectedCards # NoSelection /\ last'.op \in OtherColumnClickOps)
       => LET s == selectedCards.colIndex
              d == last'.col
              selected == SubSeq(tableau[s], selectedCards.cardIndex, Len(tableau[s]))
              legal == selected[1].rank = tableau[d][Len(tableau[d])].rank - 1
              moved == [c \in Columns |->
                          IF c = d THEN tableau[d] \o selected
                          ELSE IF c = s
                          THEN Expose(SubSeq(tableau[s], 1, selectedCards.cardIndex - 1))
                          ELSE tableau[c]]
          IN  /\ d # s
              /\ (last'.op = "moveToCard") <=> legal
              /\ legal => /\ tableau' = FinalTableau(moved)
                          /\ stock' = stock
                          /\ moves' = moves + 1
              /\ ~legal => UNCHANGED <<tableau, stock, moves>>]_vars

\* C5's case: two or more cards have just been moved onto a card of another
\* suit, and no set was removed, so the destination column shows the join.
C5_Witness ==
  /\ last.op = "moveToCard"
  /\ last.moved >= 2
  /\ last.removed = 0
  /\ LET col == tableau[last.col]
         join == Len(col) - last.moved
     IN  /\ col[join].suit # col[join + 1].suit
         /\ col[join + 1].rank = col[join].rank - 1

SomeCompleteTail == \E c \in Columns : IsCompleteTail(tableau[c])

\* C6: after every successful sequence move, onto a card or onto an empty
\* column, the set check has been applied to every column: no column ends
\* in a face-up same-suit run King..Ace.
C6_SetCheckAfterEveryMove == last.op \in MoveOps => ~SomeCompleteTail

\* C7: for every column c, checkAndRemoveCompleteSet applied to the
\* newColumn of checkAndRemoveCompleteSet(c) removes nothing and returns
\* that column unchanged.
C7_SetRemovalIdempotent ==
  \A c \in Columns :
    LET first == checkAndRemoveCompleteSet(tableau[c])
        second == checkAndRemoveCompleteSet(first.newColumn)
    IN  /\ second.removed = FALSE
        /\ second.newColumn = first.newColumn

\* C8: gameWon is true iff foundations = 8 (all the sets), and the step that
\* makes gameWon true is a move onto a card in handleCardClick.
C8_WinState ==
  /\ [](gameWon <=> foundations = WinFoundations)
  /\ [][(~gameWon /\ gameWon') => last'.op = "moveToCard"]_vars

\* C8's case: a move onto a card has just removed the last set.
C8_Witness ==
  /\ gameWon
  /\ foundations = WinFoundations
  /\ last.op = "moveToCard"
  /\ last.removed > 0

\* C9: after a move onto a card, a move onto an empty column, a deal from
\* the stock, a new game or a difficulty change, the selection is empty.
C9_SelectionCleared ==
  last.op \in {"moveToCard", "moveToEmpty", "deal", "init"}
    => selectedCards = NoSelection

EmptyColumnClickOps == {"moveToEmpty", "emptyNoSelection"}

\* C10: handleEmptyColumnClick on an empty column d with cards selected
\* always moves them, whatever their ranks and suits: column d becomes the
\* selected cards in order, the source column its cards before
\* selection.cardIndex with the new top card (if any) face-up, moves grows
\* by 1, score drops by 1, and stock, foundations and the other columns are
\* unchanged; with nothing selected it changes nothing.
C10_EmptyColumnRule ==
  [][last'.op \in EmptyColumnClickOps =>
       IF selectedCards = NoSelection
       THEN UNCHANGED <<tableau, stock, foundations, moves, score, selectedCards, gameWon>>
       ELSE LET s == selectedCards.colIndex
                d == last'.col
                cut == selectedCards.cardIndex
            IN  /\ last'.op = "moveToEmpty"
                /\ Len(tableau[d]) = 0
                /\ tableau'[d] = SubSeq(tableau[s], cut, Len(tableau[s]))
                /\ Len(tableau'[s]) = cut - 1
                /\ \A i \in 1..(cut - 1) :
                     tableau'[s][i] =
                       IF i = cut - 1 THEN FaceUp(tableau[s][i]) ELSE tableau[s][i]
                /\ \A c \in Columns \ {s, d} : tableau'[c] = tableau[c]
                /\ moves' = moves + 1
                /\ score' = score - 1
                /\ stock' = stock
                /\ foundations' = foundations]_vars

\* C10's case: two or more cards, the lowest of them not a King, have just
\* been moved onto an empty column and are all that column holds.
C10_Witness ==
  /\ last.op = "moveToEmpty"
  /\ last.moved >= 2
  /\ tableau[last.col][1].rank < KingValue
  /\ Len(tableau[last.col]) = last.moved

\* C11: the stock length is always a multiple of the column count, at most
\* NumDeals * NumCols (0, 10, .., 50 in the program); a successful handleDeal
\* removes exactly the last NumCols stock cards and appends exactly one of
\* them, face-up, to each column, column i receiving the i-th card popped
\* from the end, with foundations and score unchanged; the stock grows only
\* by initGame, so at most NumDeals deals succeed between two initGame events.
C11_StockDepletion ==
  /\ [](Len(stock) \in {k * NumCols : k \in 0..NumDeals})
  /\ [][last'.op = "deal" =>
          /\ Len(stock) >= NumCols
          /\ stock' = SubSeq(stock, 1, Len(stock) - NumCols)
          /\ \A i \in Columns :
               /\ Len(tableau'[i]) = Len(tableau[i]) + 1
               /\ SubSeq(tableau'[i], 1, Len(tableau[i])) = tableau[i]
               /\ tableau'[i][Len(tableau[i]) + 1] =
                    [stock[Len(stock) - i + 1] EXCEPT !.isFaceUp = TRUE]
          /\ foundations' = foundations
          /\ score' = score]_vars
  /\ [][Len(stock') > Len(stock) => last'.op = "init"]_vars

\* C11's case: the last deal has just emptied the stock.
C11_Witness ==
  /\ last.op = "deal"
  /\ Len(stock) = 0
  /\ moves >= NumDeals

\* the cards of column c from index i to the end are all face-up, all of one
\* suit, and each has a rank exactly one less than the card before it
IsDescendingRun(c, i) ==
  \A k \in i..Len(tableau[c]) :
    /\ tableau[c][k].isFaceUp = TRUE
    /\ tableau[c][k].suit = tableau[c][i].suit
    /\ tableau[c][k].rank = tableau[c][i].rank - (k - i)

\* C12: with no selection, clicking card i of column c sets the selection to
\* (c, i) iff column[i .. end] is a face-up, one-suit, descending-by-one run
\* (a single face-up card qualifies); otherwise the selection stays empty;
\* in both cases tableau, stock, foundations, moves and score are unchanged.
C12_SelectSequence ==
  [][\A c \in Columns : \A i \in 1..Len(tableau[c]) :
       (selectedCards = NoSelection /\ handleCardClick(c, i)) =>
         /\ IsDescendingRun(c, i) =>
              selectedCards' = [colIndex |-> c, cardIndex |-> i]
         /\ ~IsDescendingRun(c, i) => selectedCards' = NoSelection
         /\ (i = Len(tableau[c]) /\ tableau[c][i].isFaceUp) =>
              selectedCards' = [colIndex |-> c, cardIndex |-> i]
         /\ gameState' = gameState]_vars

\* C12's case: a click with no selection has selected a run of several
\* cards lying on top of other cards.
C12_Witness ==
  /\ last.op = "select"
  /\ selectedCards # NoSelection
  /\ selectedCards.cardIndex > 1
  /\ selectedCards.cardIndex < Len(tableau[selectedCards.colIndex])

\* the state of a game nobody has played yet: the dealt cards are spread over
\* the columns as evenly as possible with the longer columns first (6,6,6,6,
\* 5,..,5 in the program), exactly the top card of each column is face-up,
\* the stock holds NumDeals * NumCols face-down cards (50 in the program),
\* and the counters, the selection and the win flag are at their start values
FreshGame ==
  /\ \A c \in Columns :
       /\ Len(tableau[c]) >= 1
       /\ \A k \in 1..Len(tableau[c]) :
            tableau[c][k].isFaceUp <=> (k = Len(tableau[c]))
  /\ \A c, d \in Columns :
       c <= d => Len(tableau[c]) - Len(tableau[d]) \in {0, 1}
  /\ CardsInColumns(NumCols) = DeckSize - NumDeals * NumCols
  /\ Len(stock) = NumDeals * NumCols
  /\ \A k \in 1..Len(stock) : ~stock[k].isFaceUp
  /\ foundations = 0
  /\ moves = 0
  /\ score = 500
  /\ selectedCards = NoSelection
  /\ gameWon = FALSE

\* C13: whatever state initGame is called in (mid-selection, after a win),
\* the state it yields is a fresh game: evenly dealt columns with exactly the
\* top cards face-up, a full face-down stock, foundations 0, moves 0, score
\* 500, no selection, gameWon false.
C13_FreshGameOnInit ==
  /\ [](last.op = "init" => FreshGame)
  /\ [][last'.op = "init" => FreshGame']_vars

\* C13's case: initGame has run again after the first game was dealt, here
\* by a change of difficulty.
C13_Witness ==
  /\ last.op = "init"
  /\ difficulty # 1
  /\ FreshGame

\* C14: when a selection exists and a card (c, i) of another column is
\* clicked for which isValidMove is false, tableau, stock, foundations, moves
\* and score are unchanged, and the selection becomes (c, i) if the cards of
\* column c from i to the end form a movable sequence, and empty otherwise.
C14_InvalidMoveChangesSelectionOnly ==
  [][\A c \in Columns : \A i \in 1..Len(tableau[c]) :
       ( /\ selectedCards # NoSelection
         /\ selectedCards.colIndex # c
         /\ ~isValidMove(MovingCards, Top(tableau[c]))
         /\ handleCardClick(c, i) ) =>
         /\ gameState' = gameState
         /\ selectedCards' = IF IsDescendingRun(c, i)
                             THEN [colIndex |-> c, cardIndex |-> i]
                             ELSE NoSelection]_vars

\* C14's case: an invalid move onto a card that cannot itself be picked up
\* has cleared the selection, after at least one move was made.
C14_Witness ==
  /\ last.op = "clearInvalid"
  /\ selectedCards = NoSelection
  /\ moves > 0

\* C14's other case: an invalid move onto a movable run of several cards has
\* made that run the selection.
C14_ReselectReached ==
  /\ last.op = "reselect"
  /\ selectedCards.colIndex = last.col
  /\ selectedCards.cardIndex < Len(tableau[last.col])

\* the ids of the cards lying face-up in the tableau
FaceUpIds ==
  UNION {{tableau[c][k].id : k \in {j \in 1..Len(tableau[c]) : tableau[c][j].isFaceUp}} :
           c \in Columns}

\* the ids of the cards lying face-down in the tableau or in the stock
FaceDownIds ==
  UNION {{tableau[c][k].id : k \in {j \in 1..Len(tableau[c]) : ~tableau[c][j].isFaceUp}} :
           c \in Columns}
    \cup {stock[k].id : k \in 1..Len(stock)}

\* C15: in every reachable state the top card of each non-empty column is
\* face-up, no face-down card lies above a face-up card of its column, and
\* every stock card is face-down; within a game a card that is face-up never
\* becomes face-down again (nor returns to the stock).
C15_FaceUpStructure ==
  /\ [](/\ \A c \in Columns :
             /\ Len(tableau[c]) > 0 => tableau[c][Len(tableau[c])].isFaceUp
             /\ \A k \in 1..Len(tableau[c]) : \A j \in 1..Len(tableau[c]) :
                  (tableau[c][k].isFaceUp /\ k < j) => tableau[c][j].isFaceUp
        /\ \A k \in 1..Len(stock) : ~stock[k].isFaceUp)
  /\ [][last'.op # "init" => FaceUpIds \cap FaceDownIds' = {}]_vars

\* C15's case: the first move of a game took the face-up top card off a
\* column and the face-down card below it has been turned.
C15_Witness ==
  /\ last.op = "moveToCard"
  /\ moves = 1
  /\ Len(stock) = NumDeals * NumCols
  /\ \E c \in Columns : Len(tableau[c]) = 1 /\ tableau[c][1].isFaceUp

\* C16: if a selection is present, its column index is a column of the
\* tableau, that column is non-empty, its card index is an index of that
\* column, and every card from the card index to the end of the column is
\* face-up; so an applied move moves at least one card and its destination
\* is not its source column.
C16_SelectionPointsAtFaceUpCards ==
  /\ [](selectedCards # NoSelection =>
          /\ selectedCards.colIndex \in 1..NumCols
          /\ Len(tableau[selectedCards.colIndex]) > 0
          /\ selectedCards.cardIndex \in 1..Len(tableau[selectedCards.colIndex])
          /\ \A k \in selectedCards.cardIndex..Len(tableau[selectedCards.colIndex]) :
               tableau[selectedCards.colIndex][k].isFaceUp)
  /\ [][last'.op \in MoveOps =>
          /\ last'.moved >= 1
          /\ last'.col # selectedCards.colIndex
          /\ Len(tableau'[selectedCards.colIndex]) < Len(tableau[selectedCards.colIndex])]_vars

\* C16's case: a deal has put a card on the selected column and the
\* selection it left in place still points into that column.
C16_Witness ==
  /\ last.op = "deal"
  /\ selectedCards # NoSelection
  /\ selectedCards.cardIndex < Len(tableau[selectedCards.colIndex])

\* C17: when a selection exists, a click on any card of the selected column
\* (the selected card or another one, movable or not) clears the selection
\* and leaves tableau, stock, foundations, moves, score and gameWon
\* unchanged: no move and no re-selection happens in that step.
C17_SameColumnClickDeselects ==
  [][\A c \in Columns : \A i \in 1..Len(tableau[c]) :
       ( /\ selectedCards # NoSelection
         /\ selectedCards.colIndex = c
         /\ handleCardClick(c, i) ) =>
         /\ selectedCards' = NoSelection
         /\ gameState' = gameState
         /\ gameWon' = gameWon
         /\ last'.op \notin MoveOps \cup {"select", "reselect"}]_vars

\* C17's case: a click in the selected column has cleared the selection in
\* a game in which moves were already made.
C17_Witness ==
  /\ last.op = "deselect"
  /\ selectedCards = NoSelection
  /\ moves > 0

====
